---- MODULE Spec2Model ----
(***************************************************************************)
(* The parallel test runner of fast-fstests                                *)
(* (src/src/parallelrunner/test_runner.py): one worker task per            *)
(* supervisor pulls Tests from one shared pending list, an optional probe  *)
(* task per worker watches the supervisor, and a dead supervisor has its   *)
(* in-flight Test re-queued or finalized as ERROR before it is respawned.  *)
(*                                                                         *)
(* asyncio runs every task on one thread, so a step of the model is the    *)
(* code a task runs between two suspensions.  The suspensions are the      *)
(* awaits that really suspend with MkosiSupervisor: __aenter__, run_test,  *)
(* collect_artifacts, probe and the sleeps.  __aexit__ (__cleanup) and the *)
(* exit of a trace scope only call proc.terminate() and do not suspend.    *)
(***************************************************************************)
EXTENDS Integers, Sequences, FiniteSets, TLC

\* ---- bounds of the model ----
NumSupervisors == 2
NumTests == 2
MaxRestarts == 2
\* events of each kind fed to an Output that is driven on its own
MaxEvents == 3
\* test names of the recordings that are compared
MaxRecorded == 2
\* test names of a selection that collect_tests is given
MaxNames == 2
\* the largest test_selection.iterate
MaxIterate == 2
\* the longest recorded duration, in seconds
MaxDuration == 2

\* range(3) in _probe_loop
ProbeAttempts == 3

Supervisors == 1..NumSupervisors
Tests == 1..NumTests
None == 0

\* Test.name: names are unique per selection
NameOf(t) == t
Names == {NameOf(t) : t \in Tests}

VARIABLES
    probe_interval,           \* TestRunner.probe_interval
    max_supervisor_restarts,  \* TestRunner.max_supervisor_restarts
    keep_alive,               \* TestRunner.keep_alive
    results_dir,              \* Output.results_dir: None or a directory
    selected,                 \* the Tests handed to the TestRunner
    tracing,                  \* TestRunner.dmesg, and whether
                              \*   TestRunner.bpftrace_command is set
    collect,                  \* collect_tests: the names selected, iterate and
                              \*   randomize of test_selection, and the names
                              \*   of the Tests it returned, in list order
    tests,                    \* TestRunner.tests, the pending list
    id,                       \* Test.id, the attempt id of each Test
    death_counts,             \* TestRunner._death_counts, by test name
    enter_count,              \* the __aenter__ calls made on each supervisor
    results,                  \* finished_test events, by Test, in order
    retries,                  \* Output._retries, by test name
    died,                     \* the number of supervisor_died reports
    files,                    \* the status, duration and retcode files of
                              \*   each attempt directory tests/<name>/<id>
    latest,                   \* the attempt the status, duration and retcode
                              \*   links of latest/<name> point to
    exited,                   \* Supervisor.exited
    pc,                       \* where each worker is suspended
    test,                     \* the local `test` of _run_tests_loop
    current_test,             \* the in-flight cell current_test[0]
    result,                   \* the local `result` of _run_test
    probe_task,               \* state of the worker's probe task
    commands,                 \* the commands run through each supervisor: the
                              \*   trace scopes that are open, the processes
                              \*   that are alive, and the order in which the
                              \*   scopes of the last Test were closed
    sinks,                    \* the attempt the stdout and stderr links, the
                              \*   dmesg link and the bpftrace links of
                              \*   latest/<name> point to
    attempt,                  \* loop variable of _probe_loop
    run_state,                \* where run() is
    summaries,                \* the number of print_summary calls
    consec,                   \* history: consecutive false probe() results
                              \*          seen by the running probe task
    probe_recovered,          \* history, kept by SpecTransient: a probe()
                              \*          returned true right after one that
                              \*          returned false
    unexpected,               \* history: run_test has raised an exception
                              \*          that is not an OSError
    rec_a,                    \* print_comparison: the recording a
    rec_b,                    \* print_comparison: the recording b
    report,                   \* print_comparison: the lists it has built
    slowest                   \* sort_by_duration: its source, whether the
                              \*   directory of the source exists, and how
                              \*   the call ended

config == <<probe_interval, max_supervisor_restarts, keep_alive, results_dir,
            selected, tracing, collect>>
runner == <<tests, id, death_counts, enter_count>>
output == <<results, retries, died, files, latest>>
worker == <<exited, pc, test, current_test, result, probe_task, attempt, consec,
           commands, sinks>>
history == <<probe_recovered, unexpected>>
run_vars == <<run_state, summaries>>
recording == <<rec_a, rec_b, report, slowest>>
vars == <<config, runner, output, worker, run_vars, history, recording>>

\* ---- values ----

\* what run_test returns.  The runner hands the TestResult to finished_test
\* without reading it, so one value stands for every result of a test run.
PassResult ==
    [status |-> "PASS", summary |-> "", n |-> 0, duration |-> 1, retcode |-> 0]
RunResults == {PassResult}

\* a TestResult without a return code: retcode is None
NoRetcode == -1

\* TestResult.from_error(name, summary, 0.0, ...)
from_error(summary, n) ==
    [status |-> "ERROR", summary |-> summary, n |-> n, duration |-> 0,
     retcode |-> NoRetcode]

\* the pending list as collect_tests builds it: reverse-sorted, so that
\* pop() from the end dispatches in ascending order
InitialQueue(n) == [i \in 1..n |-> n + 1 - i]

\* (mutant) probe_interval = 0 does not take the path without probing
Probing_AtZero == probe_interval >= 0

\* `if self.probe_interval <= 0` is the path without probing
Probing == probe_interval > 0

\* list.pop(): the last element, and the list without it
Last(q) == q[Len(q)]

\* (mutant) pop() drops one more element
Front_Two(q) == SubSeq(q, 1, Len(q) - 2)

Front(q) == SubSeq(q, 1, Len(q) - 1)

NoResult ==
    [status |-> "NONE", summary |-> "", n |-> 0, duration |-> 0,
     retcode |-> NoRetcode]

\* no link in latest/<name> yet
NoLink == -1

\* no stdout, dmesg or bpftrace link in latest/<name> yet
NoSinks == [stdout |-> NoLink, dmesg |-> NoLink, bpftrace |-> NoLink]

\* --slowest-first is not given: sort_by_duration is not called
NotSorted == [source |-> "none", exists |-> FALSE, state |-> "not_called"]

\* ---- the commands of a Test: tracers and the test command ----

\* no tracer is configured
NoTracing == [dmesg |-> FALSE, bpftrace |-> FALSE]

\* no scope is open and no process is alive
NoCommands == [scopes |-> <<>>, procs |-> {}, closed |-> <<>>]

\* _dmesg starts a tracer: self.dmesg is set and log_dmesg has a file to
\* write to, which takes a results directory
DmesgWanted == tracing.dmesg /\ results_dir # "none"

\* _bpftrace starts a tracer: self.bpftrace_command is set
BpftraceWanted == tracing.bpftrace

\* where a worker that has popped a Test suspends first: in the start of
\* the dmesg tracer, of the bpftrace tracer, or in run_test
AfterPop ==
    IF DmesgWanted THEN "start_dmesg"
    ELSE IF BpftraceWanted THEN "start_bpftrace" ELSE "run_test"

\* where it suspends once the tracer of `at` has started
AfterStart(at) ==
    IF at = "start_dmesg" /\ BpftraceWanted THEN "start_bpftrace" ELSE "run_test"

\* the tracer a worker suspended at `at` is starting
TracerOf(at) == IF at = "start_dmesg" THEN "dmesg" ELSE "bpftrace"

\* self._link(filename, path, latest) of the sink opened for Test t before
\* the worker suspends at `at`: the link is pointed into the directory of
\* the current attempt of t.  Without a results directory nothing is linked.
\* sink: the file opened right before the worker suspends at `at`, by
\* log_dmesg, log_bpftrace or _open_test_outputs.
Opened(sk, t, at) ==
    LET sink == IF at = "start_dmesg" THEN "dmesg"
                ELSE IF at = "start_bpftrace" THEN "bpftrace" ELSE "stdout"
    IN  IF results_dir = "none" THEN sk
        ELSE [sk EXCEPT ![NameOf(t)][sink] = id[t]]

\* run_command of run_test has a process as long as run_test is pending
WithTest(cm, at) ==
    IF at = "run_test" THEN [cm EXCEPT !.procs = @ \cup {"test"}] ELSE cm

\* (mutant) the scopes are closed in the order they were opened in
Unwound_Fifo(scopes) == scopes

\* the order in which nested `async with` scopes are left: the last one
\* entered first
Unwound(scopes) == [i \in 1..Len(scopes) |-> scopes[Len(scopes) + 1 - i]]

\* (mutant) leaving the scopes terminates the outermost tracer only
Terminated_Outer(scopes) == IF scopes = <<>> THEN {} ELSE {scopes[1]}

\* the tracers whose `finally: proc.terminate()` runs when the scopes are left
Terminated(scopes) == {scopes[i] : i \in DOMAIN scopes}

\* the trace scopes of a Test are left, by return, exception or cancellation
ExitScopes(cm) ==
    [scopes |-> <<>>, procs |-> cm.procs \ Terminated(cm.scopes),
     closed |-> Unwound(cm.scopes)]

\* (mutant) run_command terminates its process on cancellation as well
Abandoned_Terminate(cm) == [cm EXCEPT !.procs = @ \ {"test"}]

\* run_command is left by cancellation or by an exception: only a
\* TimeoutError makes it call proc.terminate()
Abandoned(cm) == cm

\* run_command is left because the command has ended or the timeout expired
\* and proc.terminate() was called
CommandOver(cm) == [cm EXCEPT !.procs = @ \ {"test"}]

\* the VM of the supervisor goes down: __cleanup terminates it, and no
\* command runs in it any more
VmDown(cm) == [cm EXCEPT !.procs = {}]

\* the commands of the supervisors when the exited flags go from ex to ex2
Released(cms, ex, ex2) ==
    [w \in Supervisors |-> IF ex2[w] /\ ~ex[w] THEN VmDown(cms[w]) ELSE cms[w]]

\* ---- collect_tests ----

\* the number of times name nm is in the list s
Count(s, nm) == Cardinality({i \in DOMAIN s : s[i] = nm})

\* sorted(tests) of a list of names that holds each name of S c times
RECURSIVE SortedNames(_, _)
SortedNames(S, c) ==
    IF S = {} THEN <<>>
    ELSE LET m == CHOOSE x \in S : \A y \in S : x <= y
         IN  [i \in 1..c |-> m] \o SortedNames(S \ {m}, c)

\* (mutant) the sorted list is handed over as it is
reversed_Not(s) == s

\* reversed(s)
reversed(s) == [i \in 1..Len(s) |-> s[Len(s) + 1 - i]]

\* random.shuffle(tests): every order of the same names
Shuffles(s) ==
    {p \in [1..Len(s) -> {s[i] : i \in DOMAIN s}] :
        \A i \in DOMAIN s : Count(p, s[i]) = Count(s, s[i])}

\* (mutant) iterate is ignored: every name once
Repeats_Once(k) == 1

\* `[test for test in tests for _ in range(iterate)]` when iterate > 1:
\* how many times each name is in the list
Repeats(k) == IF k > 1 THEN k ELSE 1

\* `assert config.test_selection.iterate >= 1`
IterateValid(k) == k >= 1

\* the lists of names collect_tests can return for the selected names S
collect_tests(S, k, randomize) ==
    IF randomize THEN Shuffles(SortedNames(S, Repeats(k)))
    ELSE {reversed(SortedNames(S, Repeats(k)))}

\* what collect_tests has returned for a selection of names that the
\* TestRunner is handed as it is: iterate = 1, reverse-sorted
Collected(S) ==
    [tests |-> S, iterate |-> 1, randomize |-> FALSE, state |-> "collected",
     out |-> reversed(SortedNames(S, 1))]

\* ---- initial state: TestRunner.__init__, then run() has created one
\* ---- worker task per supervisor, each about to enter its supervisor
RunnerInit ==
    /\ probe_interval \in {0, 1}
    /\ max_supervisor_restarts \in 0..MaxRestarts
    /\ keep_alive \in BOOLEAN
    /\ results_dir \in {"none", "dir"}
    /\ selected \in {1..n : n \in 0..NumTests}
    /\ collect = Collected({NameOf(t) : t \in selected})
    /\ tests = InitialQueue(Cardinality(selected))
    /\ id = [t \in Tests |-> 0]
    /\ death_counts = [nm \in Names |-> 0]
    /\ enter_count = [w \in Supervisors |-> 1]
    /\ results = [t \in Tests |-> <<>>]
    /\ retries = [nm \in Names |-> 0]
    /\ died = 0
    /\ files = <<>>
    /\ latest = [nm \in Names |-> NoLink]
    /\ exited = [w \in Supervisors |-> FALSE]
    /\ pc = [w \in Supervisors |-> "spawning"]
    /\ test = [w \in Supervisors |-> None]
    /\ current_test = [w \in Supervisors |-> None]
    /\ result = [w \in Supervisors |-> NoResult]
    /\ probe_task = [w \in Supervisors |-> "none"]
    /\ commands = [w \in Supervisors |-> NoCommands]
    /\ sinks = [nm \in Names |-> NoSinks]
    /\ attempt = [w \in Supervisors |-> 0]
    /\ run_state = "running"
    /\ summaries = 0
    /\ consec = [w \in Supervisors |-> 0]
    /\ probe_recovered = FALSE
    /\ unexpected = FALSE

\* the lists of print_comparison, all empty; done: the loop has run
EmptyReport ==
    [done |-> FALSE, regressions |-> <<>>, fixes |-> <<>>, new_tests |-> <<>>,
     removed_tests |-> <<>>, timing |-> <<>>, crash_rescheduled |-> <<>>,
     new_non_crashed |-> <<>>]

\* a run of the TestRunner without tracers compares no recordings
Init ==
    /\ RunnerInit
    /\ tracing = NoTracing
    /\ rec_a = <<>>
    /\ rec_b = <<>>
    /\ report = EmptyReport
    /\ slowest = NotSorted

\* ---- pieces of the worker ----

\* the worker task of w is over: it returned from Spawning, from a failed
\* respawn or through Exiting, or it was cancelled
Ended(w) ==
    pc[w] \in {"spawn_failed", "respawn_failed", "ended", "cancelled", "raised"}

\* (mutant) the finally block of _worker releases whatever keep_alive is
WorkerEnds_Release(w, ex) == [ex EXCEPT ![w] = TRUE]

\* the finally block of _worker: release unless keep_alive
WorkerEnds(w, ex) == IF keep_alive THEN ex ELSE [ex EXCEPT ![w] = TRUE]

\* (mutant) the cell keeps the Test that has just been finalized
CellAfterTest_Stale(t) == t

\* current_test[0] = None after a test of _run_tests_loop
CellAfterTest(t) == None

\* the cell a popped test is written to: only the probing path passes one
CellOnPop(t) == IF Probing THEN t ELSE None

\* (mutant) the worker runs the first element and removes the last
PopOf_First(q) == q[1]

\* the test _run_tests_loop takes next: tests.pop(), the last element
PopOf(q) == Last(q)

\* (mutant) the event of the Test is lost
finished_test_Lost(res, t, r) == res

\* Output.finished_test: one event for the Test
finished_test(res, t, r) == [res EXCEPT ![t] = Append(@, r)]

\* str(result.retcode)
str(v) == IF v = NoRetcode THEN "None" ELSE ToString(v)

\* str(result.duration) of a float of whole seconds
str_float(d) == ToString(d) \o ".0"

\* the three files _save_result writes for a result
result_files(r) ==
    [retcode |-> str(r.retcode), duration |-> str_float(r.duration),
     status |-> r.status]

\* (mutant) every attempt of a test is written to one directory
get_test_path_NoId(t) == <<NameOf(t), 0>>

\* Output._get_test_path: results_dir/tests/<name>/<id>
get_test_path(t) == <<NameOf(t), id[t]>>

\* Output._save_result, the files: written into the attempt directory of
\* the Test, over what is there; nothing without a results directory
save_result(fs, t, r) ==
    IF results_dir = "none" THEN fs
    ELSE (get_test_path(t) :> result_files(r)) @@ fs

\* Output._save_result, the links: latest/<name>/{retcode,duration,status}
\* are pointed at the files just written
link(lt, t) ==
    IF results_dir = "none" THEN lt
    ELSE [lt EXCEPT ![NameOf(t)] = get_test_path(t)[2]]

\* (mutant) the probe task is left running when the run task ends
cancel_Not(pt) == pt

\* `probe_task.cancel()` in the finally block of _run_tests_then_cancel: a
\* probe task that has not raised is cancelled, and the TaskGroup ends
cancel(pt) == "none"

\* The head of the while loop of _run_tests_loop, reached when the worker
\* starts serving (fresh) or straight after a test has been finalized.
\* q is the pending list and ex the exited flags at that moment.  With a
\* test to pop the worker suspends in run_test; with none the run task
\* ends, which cancels the probe task and (if the probe task has not
\* raised meanwhile) ends the worker through its finally block.
ServeNext(w, q, ex, fresh) ==
    LET pt == IF fresh THEN (IF Probing THEN "running" ELSE "none")
                       ELSE probe_task[w]
        at == IF fresh THEN 0 ELSE attempt[w]
        cm == ExitScopes(CommandOver(commands[w]))
    IN  IF q # <<>>
        THEN /\ tests' = Front(q)
             /\ test' = [test EXCEPT ![w] = PopOf(q)]
             /\ current_test' = [current_test EXCEPT ![w] = CellOnPop(PopOf(q))]
             /\ pc' = [pc EXCEPT ![w] = AfterPop]
             /\ commands' = [commands EXCEPT ![w] = WithTest(cm, AfterPop)]
             /\ sinks' = Opened(sinks, PopOf(q), AfterPop)
             /\ probe_task' = [probe_task EXCEPT ![w] = pt]
             /\ attempt' = [attempt EXCEPT ![w] = at]
             /\ consec' = [consec EXCEPT ![w] = IF fresh THEN 0 ELSE @]
             /\ exited' = ex
        ELSE /\ tests' = q
             /\ test' = [test EXCEPT ![w] = None]
             /\ current_test' = [current_test EXCEPT ![w] =
                                    IF Probing THEN CellAfterTest(test[w]) ELSE None]
             /\ UNCHANGED sinks
             /\ IF pt = "raised"
                THEN /\ pc' = [pc EXCEPT ![w] = "task_done"]
                     /\ commands' = [commands EXCEPT ![w] = cm]
                     /\ probe_task' = [probe_task EXCEPT ![w] = pt]
                     /\ attempt' = [attempt EXCEPT ![w] = at]
                     /\ consec' = [consec EXCEPT ![w] = IF fresh THEN 0 ELSE @]
                     /\ exited' = ex
                ELSE /\ pc' = [pc EXCEPT ![w] = "ended"]
                     /\ probe_task' = [probe_task EXCEPT ![w] = cancel(pt)]
                     /\ attempt' = [attempt EXCEPT ![w] = 0]
                     /\ consec' = [consec EXCEPT ![w] = 0]
                     /\ exited' = WorkerEnds(w, ex)
                     /\ commands' = Released([commands EXCEPT ![w] = cm], ex,
                                              WorkerEnds(w, ex))

\* ---- Spawning: await supervisor.__aenter__() ----
\* how: "ok", or a failure that went through __cleanup ("timeout") or not
Acquire(w, how) ==
    /\ run_state = "running"
    /\ pc[w] = "spawning"
    /\ IF how = "ok"
       THEN ServeNext(w, tests, [exited EXCEPT ![w] = FALSE], TRUE)
       ELSE /\ pc' = [pc EXCEPT ![w] = "spawn_failed"]
            /\ exited' = [exited EXCEPT ![w] = (how = "timeout")]
            /\ UNCHANGED <<tests, test, current_test, probe_task, attempt,
                           consec, commands, sinks>>
    /\ UNCHANGED <<config, recording, id, death_counts, enter_count,
                   output, result, run_vars,
                   history>>

\* (mutant) artifacts are collected whether there is a directory or not
HasArtifactPath_Always == TRUE

\* Output.get_artifact_path: None without a results directory, and then
\* collect_artifacts is not called
HasArtifactPath == results_dir # "none"

\* ---- Serving: run_test returns r ----
RunTest(w, r) ==
    /\ run_state = "running"
    /\ pc[w] = "run_test"
    /\ IF HasArtifactPath
       THEN /\ result' = [result EXCEPT ![w] = r]
            /\ pc' = [pc EXCEPT ![w] = "collect_artifacts"]
            /\ commands' = [commands EXCEPT ![w] = CommandOver(@)]
            /\ UNCHANGED <<tests, test, current_test, probe_task, attempt,
                           consec, exited, results, files, latest, sinks>>
       ELSE /\ results' = finished_test(results, test[w], r)
            /\ files' = save_result(files, test[w], r)
            /\ latest' = link(latest, test[w])
            /\ ServeNext(w, tests, exited, FALSE)
            /\ UNCHANGED result
    /\ UNCHANGED <<config, recording, id, death_counts, enter_count,
                   retries, died, run_vars,
                   history>>

\* ---- Serving: collect_artifacts returns, the result is handed over ----
CollectArtifacts(w) ==
    /\ run_state = "running"
    /\ pc[w] = "collect_artifacts"
    /\ results' = finished_test(results, test[w], result[w])
    /\ files' = save_result(files, test[w], result[w])
    /\ latest' = link(latest, test[w])
    /\ result' = [result EXCEPT ![w] = NoResult]
    /\ ServeNext(w, tests, exited, FALSE)
    /\ UNCHANGED <<config, recording, id, death_counts, enter_count,
                   retries, died, run_vars,
                   history>>

\* ---- Probe: one probe() call of _probe_loop returns alive ----

\* (mutant) the loop gives up after the second failed attempt
LastAttempt_Second(a) == a + 1 >= 2

\* (mutant) the loop gives up after the first failed attempt
LastAttempt_First(a) == a + 1 >= 1

\* the for loop of _probe_loop gives up after this failed attempt
LastAttempt(a) == a + 1 >= ProbeAttempts

\* what one probe() result does to the probe task: true ends the round of
\* attempts, false goes on to the next attempt or, after the last, raises
ProbeReturns(w, alive) ==
    /\ run_state = "running"
    /\ probe_task[w] = "running"
    /\ IF alive
       THEN /\ attempt' = [attempt EXCEPT ![w] = 0]
            /\ consec' = [consec EXCEPT ![w] = 0]
            /\ UNCHANGED probe_task
       ELSE /\ consec' = [consec EXCEPT ![w] = @ + 1]
            /\ IF LastAttempt(attempt[w])
               THEN /\ probe_task' = [probe_task EXCEPT ![w] = "raised"]
                    /\ UNCHANGED attempt
               ELSE /\ attempt' = [attempt EXCEPT ![w] = @ + 1]
                    /\ UNCHANGED probe_task
    /\ UNCHANGED <<config, recording, runner, output, exited, pc, test, current_test,
                   result, commands, sinks, run_vars>>

\* the step as Spec takes it, the history left alone
Probe(w, alive) == ProbeReturns(w, alive) /\ UNCHANGED history

\* ---- Recovering: the except* handler of _worker and what follows ----

\* (mutant) the cap is hit one death late
CapHit_Late(count) == count > max_supervisor_restarts

\* the restart cap: count >= self.max_supervisor_restarts
CapHit(count) == count >= max_supervisor_restarts

\* (mutant) the worker respawns whatever is left to run
RespawnWanted_Always(q) == TRUE

\* the worker goes on to respawn: `if not self.tests: return` did not return
RespawnWanted(q) == q # <<>>

\* Test.retry(): a fresh attempt id
retry(ids, t) == [ids EXCEPT ![t] = @ + 1]

\* (mutant) the interrupted Test is not put back
Requeue_Drop(q, t) == q

\* self.tests.append(test)
Requeue(q, t) == Append(q, t)

\* the result record_retry is given by the handler
DiedResult == from_error("supervisor died", 0)

\* the pending list after the handler: the Test of the cell is appended
\* unless the cell is empty or the cap is hit
DeathQueue(w) ==
    LET t == current_test[w]
        count == death_counts[NameOf(t)] + 1
    IN  IF t # None /\ ~CapHit(count) THEN Requeue(tests, t) ELSE tests

\* The body of the except* handler: report the death, then record a retry
\* for the Test of the cell and re-queue it or finalize it at the cap.
DeathRecord(w) ==
    LET t == current_test[w]
        count == death_counts[NameOf(t)] + 1
    IN  /\ died' = died + 1
        /\ IF t # None
           THEN /\ retries' = [retries EXCEPT ![NameOf(t)] = @ + 1]
                /\ latest' = link(latest, t)
                /\ death_counts' = [death_counts EXCEPT ![NameOf(t)] = count]
                /\ IF CapHit(count)
                   THEN /\ results' = finished_test(results, t,
                                         from_error("killed supervisor", count))
                        /\ files' = save_result(
                                        save_result(files, t, DiedResult), t,
                                        from_error("killed supervisor", count))
                        /\ UNCHANGED id
                   ELSE /\ id' = retry(id, t)
                        /\ files' = save_result(files, t, DiedResult)
                        /\ UNCHANGED results
           ELSE UNCHANGED <<retries, death_counts, results, id, files, latest>>
        /\ tests' = DeathQueue(w)

\* __aexit__ of the supervisor of worker w: __cleanup sets _exited
aexit(ex, w) == [ex EXCEPT ![w] = TRUE]

\* the start of __aenter__, up to its first await: _exited is reset
aenter(ex, w) == [ex EXCEPT ![w] = FALSE]

\* (mutant) the respawn enters the supervisor, then releases it
RespawnCalls_EnterFirst(ex, w) == aexit(aenter(ex, w), w)

\* the respawn: `await supervisor.__aexit__(None, None, None)`, which does
\* not suspend, then `await supervisor.__aenter__()`, which does
RespawnCalls(ex, w) == aenter(aexit(ex, w), w)

\* (mutant) the respawn enters the supervisor twice
Entered_Twice(ec, w) == [ec EXCEPT ![w] = @ + 2]

\* one more `await supervisor.__aenter__()` on the supervisor of worker w
Entered(ec, w) == [ec EXCEPT ![w] = @ + 1]

\* The TaskGroup of the probing path has ended with SupervisorExited or
\* OSError: the handler runs, then the worker returns or releases and
\* re-enters the supervisor.  cm: the commands of the worker as the run
\* task has left them.
DeathHandler(w, cm) ==
    /\ DeathRecord(w)
    /\ test' = [test EXCEPT ![w] = None]
    /\ current_test' = [current_test EXCEPT ![w] = None]
    /\ result' = [result EXCEPT ![w] = NoResult]
    /\ probe_task' = [probe_task EXCEPT ![w] = "none"]
    /\ attempt' = [attempt EXCEPT ![w] = 0]
    /\ consec' = [consec EXCEPT ![w] = 0]
    /\ UNCHANGED sinks
    /\ IF RespawnWanted(DeathQueue(w))
       THEN /\ pc' = [pc EXCEPT ![w] = "respawning"]
            /\ exited' = RespawnCalls(exited, w)
            /\ commands' = [commands EXCEPT ![w] = VmDown(cm)]
            /\ enter_count' = Entered(enter_count, w)
       ELSE /\ pc' = [pc EXCEPT ![w] = "ended"]
            /\ exited' = WorkerEnds(w, exited)
            /\ commands' = Released([commands EXCEPT ![w] = cm], exited,
                                     WorkerEnds(w, exited))
            /\ UNCHANGED enter_count

\* the probe task has raised SupervisorExited: the TaskGroup cancels the
\* run task where it is suspended (or finds it finished) and the handler runs
SupervisorDied(w) ==
    /\ run_state = "running"
    /\ probe_task[w] = "raised"
    /\ pc[w] \in {"start_dmesg", "start_bpftrace", "run_test",
                 "collect_artifacts", "task_done"}
    /\ DeathHandler(w, ExitScopes(Abandoned(commands[w])))
    /\ UNCHANGED <<config, recording, run_vars, history>>

\* the second __aenter__ of the respawn returns or raises
Respawn(w, how) ==
    /\ run_state = "running"
    /\ pc[w] = "respawning"
    /\ IF how = "ok"
       THEN ServeNext(w, tests, exited, TRUE)
       ELSE /\ pc' = [pc EXCEPT ![w] = "respawn_failed"]
            /\ exited' = WorkerEnds(w, [exited EXCEPT ![w] = (how = "timeout")])
            /\ UNCHANGED <<tests, test, current_test, probe_task, attempt,
                           consec, commands, sinks>>
    /\ UNCHANGED <<config, recording, id, death_counts, enter_count,
                   output, result, run_vars,
                   history>>

\* ---- run() ----

\* (mutant) a cancelled run() does not get to print_summary
Summaries_NotOnCancel(how) == IF how = "cancelled" THEN 0 ELSE 1

\* print_summary calls of the finally block of run(), however run() ends
Summaries(how) == 1

\* (mutant) run() releases nothing in its finally block
SafetyNet_Not(ex) == ex

\* the finally block of run(): `if not supervisor.exited: await
\* supervisor.__aexit__(...)` for every supervisor, after the finally blocks
\* of the workers that were unwound
SafetyNet(ex) == [w \in Supervisors |-> TRUE]

\* every task that is not over is cancelled and unwinds, except the worker
\* whose exception started it (raiser), which has raised; then the finally
\* block of run() releases what is not yet exited and prints the summary
Unwinding(how, raiser) ==
    /\ run_state' = how
    /\ summaries' = summaries + Summaries(how)
    /\ pc' = [w \in Supervisors |->
                IF Ended(w) THEN pc[w]
                ELSE IF w = raiser THEN "raised" ELSE "cancelled"]
    /\ exited' = SafetyNet(exited)
    /\ test' = [w \in Supervisors |-> None]
    /\ current_test' = [w \in Supervisors |-> None]
    /\ result' = [w \in Supervisors |-> NoResult]
    /\ probe_task' = [w \in Supervisors |-> "none"]
    /\ commands' = [w \in Supervisors |->
                      VmDown(ExitScopes(Abandoned(commands[w])))]
    /\ attempt' = [w \in Supervisors |-> 0]
    /\ consec' = [w \in Supervisors |-> 0]
    /\ UNCHANGED sinks

\* the unwinding when no worker task has raised
Unwind(how) == Unwinding(how, None)

\* (mutant) run() raises when every worker ended in Spawning
RunEndState_Raise ==
    IF \A w \in Supervisors : pc[w] = "spawn_failed" THEN "raised" ELSE "returned"

\* how run() ends after its TaskGroup, keep_alive off: the finally block,
\* then a normal return
RunEndState == "returned"

\* the TaskGroup of run() has no worker left
RunFinish ==
    /\ run_state = "running"
    /\ \A w \in Supervisors : Ended(w)
    /\ IF keep_alive
       THEN /\ run_state' = "keeping_alive"
            /\ UNCHANGED <<worker, summaries>>
       ELSE Unwind(RunEndState)
    /\ UNCHANGED <<config, recording, runner, output, history>>

\* ---- run_test raises ----

\* (mutant) the handler of the probing path catches every exception
Caught_Any(exc) == TRUE

\* except* (SupervisorExited, OSError) of the probing path
Caught(exc) == exc \in {"SupervisorExited", "OSError"}

\* except OSError of the path without probing
CaughtPlain(exc) == exc = "OSError"

\* An await of _run_tests_loop (run_test, and the start of a tracer or
\* collect_artifacts where they can fail) raises exc: "OSError", or
\* "Exception" for anything that is neither OSError nor SupervisorExited.
\* The command that raised is over.
\* Caught, probing: the TaskGroup ends and the recovery handler runs.
\* Caught, not probing: the death is reported and the worker returns
\* through its finally block; its Test is not put back.
\* Not caught: the exception leaves _worker and the TaskGroup of run(),
\* which cancels the other workers; if the probe task of this worker has
\* raised as well, the exception group holds both and the recovery handler
\* runs for the SupervisorExited before the rest is raised again.
RaisedInLoop(w, exc) ==
    /\ run_state = "running"
    /\ unexpected' = (unexpected \/ exc # "OSError")
    /\ UNCHANGED <<config, recording, probe_recovered>>
    /\ IF Probing
       THEN IF Caught(exc)
            THEN /\ DeathHandler(w, ExitScopes(CommandOver(commands[w])))
                 /\ UNCHANGED run_vars
            ELSE /\ Unwinding("raised", w)
                 /\ IF probe_task[w] = "raised"
                    THEN DeathRecord(w) /\ UNCHANGED enter_count
                    ELSE UNCHANGED <<runner, output>>
       ELSE IF CaughtPlain(exc)
            THEN /\ died' = died + 1
                 /\ pc' = [pc EXCEPT ![w] = "ended"]
                 /\ test' = [test EXCEPT ![w] = None]
                 /\ exited' = WorkerEnds(w, exited)
                 /\ commands' =
                        Released([commands EXCEPT
                                    ![w] = ExitScopes(CommandOver(@))],
                                 exited, WorkerEnds(w, exited))
                 /\ result' = [result EXCEPT ![w] = NoResult]
                 /\ UNCHANGED <<runner, results, retries, files, latest,
                                current_test,
                                probe_task, attempt, consec, sinks,
                                run_vars>>
            ELSE Unwinding("raised", w) /\ UNCHANGED <<runner, output>>

\* the exception comes out of run_test
RunTestRaises(w, exc) == pc[w] = "run_test" /\ RaisedInLoop(w, exc)

RunTestOSError(w) == RunTestRaises(w, "OSError")

\* run_test raises something that is neither SupervisorExited nor OSError
RunTestException(w) == RunTestRaises(w, "Exception")

\* the task running run() is cancelled (KeyboardInterrupt)
Cancel ==
    /\ run_state \in {"running", "keeping_alive"}
    /\ Unwind("cancelled")
    /\ UNCHANGED <<config, recording, runner, output, history>>

Next ==
    \/ \E w \in Supervisors, how \in {"ok", "timeout", "error"} : Acquire(w, how)
    \/ \E w \in Supervisors, r \in RunResults : RunTest(w, r)
    \/ \E w \in Supervisors : CollectArtifacts(w)
    \/ \E w \in Supervisors, alive \in BOOLEAN : Probe(w, alive)
    \/ \E w \in Supervisors : SupervisorDied(w)
    \/ \E w \in Supervisors : RunTestOSError(w)
    \/ \E w \in Supervisors, how \in {"ok", "timeout", "error"} : Respawn(w, how)
    \/ \E w \in Supervisors : RunTestException(w)
    \/ RunFinish
    \/ Cancel

Spec == Init /\ [][Next]_vars

\* ---- fairness ----
\* The event loop runs every task that is ready, and a supervisor call that
\* is awaited returns or raises in the end: a worker that can take a step
\* takes one.  Nothing forces a probe to come before the test returns.
WorkerStep(w) ==
    \/ \E how \in {"ok", "timeout", "error"} : Acquire(w, how)
    \/ \E r \in RunResults : RunTest(w, r)
    \/ CollectArtifacts(w)
    \/ SupervisorDied(w)
    \/ RunTestOSError(w)
    \/ \E how \in {"ok", "timeout", "error"} : Respawn(w, how)
    \/ RunTestException(w)

SpecFair ==
    /\ Init /\ [][Next]_vars
    /\ \A w \in Supervisors : WF_vars(WorkerStep(w))
    /\ WF_vars(RunFinish)

\* ---- supervisors that never die: every acquire, run_test and probe
\* ---- succeeds, and nobody cancels the run
CalmNext ==
    \/ \E w \in Supervisors : Acquire(w, "ok")
    \/ \E w \in Supervisors, r \in RunResults : RunTest(w, r)
    \/ \E w \in Supervisors : CollectArtifacts(w)
    \/ \E w \in Supervisors : Probe(w, TRUE)
    \/ RunFinish

CalmStep(w) ==
    \/ Acquire(w, "ok")
    \/ \E r \in RunResults : RunTest(w, r)
    \/ CollectArtifacts(w)

SpecCalm ==
    /\ Init /\ [][CalmNext]_vars
    /\ \A w \in Supervisors : WF_vars(CalmStep(w))
    /\ WF_vars(RunFinish)

\* ---- supervisors whose probe fails once in a while, never twice in a
\* ---- row, and that are healthy otherwise
ProbeTransient(w) == consec[w] = 0 /\ Probe(w, FALSE)

\* a probe() that returns true; the history notes one that follows a failure
ProbeAlive(w) ==
    /\ ProbeReturns(w, TRUE)
    /\ probe_recovered' = (probe_recovered \/ consec[w] > 0)
    /\ UNCHANGED unexpected

TransientNext ==
    \/ \E w \in Supervisors : Acquire(w, "ok")
    \/ \E w \in Supervisors, r \in RunResults : RunTest(w, r)
    \/ \E w \in Supervisors : CollectArtifacts(w)
    \/ \E w \in Supervisors : ProbeAlive(w)
    \/ \E w \in Supervisors : ProbeTransient(w)
    \/ RunFinish

SpecTransient == Init /\ [][TransientNext]_vars

\* ---- the Output on its own: any sequence of finished_test and
\* ---- record_retry events, with results of every status

\* TestStatus
TestStatus == {"PASS", "FAIL", "SKIP", "ERROR"}

\* a TestResult of the given status
ResultOf(st) ==
    [status |-> st, summary |-> "", n |-> 0, duration |-> 1,
     retcode |-> IF st = "ERROR" THEN NoRetcode ELSE IF st = "FAIL" THEN 1 ELSE 0]

\* Output._results, as the set of its entries: the i-th event of Test t
AllEvents == UNION {{<<t, i>> : i \in DOMAIN results[t]} : t \in Tests}

\* the number of finished_test events so far: len(self._results)
FinishedEvents == Cardinality(AllEvents)

\* sum(self._retries.values()), the Retried line of the summary
RECURSIVE TotalRetries(_)
TotalRetries(S) ==
    IF S = {} THEN 0
    ELSE LET nm == CHOOSE x \in S : TRUE
         IN  retries[nm] + TotalRetries(S \ {nm})

\* (mutant) the summary has no line for skipped tests
StatusStyles_NoSkip == {"PASS", "FAIL", "ERROR"}

\* the keys of _STATUS_STYLES: the statuses the summary has a line for
StatusStyles == {"PASS", "SKIP", "FAIL", "ERROR"}

\* Counter(r.status for r in self._results)[st]
Counter(st) ==
    Cardinality({e \in AllEvents : results[e[1]][e[2]].status = st})

\* the counts _print_result_counts prints: one per status of _STATUS_STYLES
SummaryCounts == [st \in StatusStyles |-> Counter(st)]

RECURSIVE SumCounts(_, _)
SumCounts(counts, S) ==
    IF S = {} THEN 0
    ELSE LET st == CHOOSE x \in S : TRUE
         IN  counts[st] + SumCounts(counts, S \ {st})

\* the Output after construction, handed every Test; the runner stays idle
OutputInit ==
    /\ Init
    /\ selected = Tests
    /\ probe_interval = 0
    /\ max_supervisor_restarts = MaxRestarts
    /\ ~keep_alive

\* Output.finished_test(test, result)
OutFinishedTest(t, st) ==
    /\ FinishedEvents < MaxEvents
    /\ results' = finished_test(results, t, ResultOf(st))
    /\ files' = save_result(files, t, ResultOf(st))
    /\ latest' = link(latest, t)
    /\ UNCHANGED <<config, recording, runner, retries, died, worker, run_vars, history>>

\* Output.record_retry(test, result)
OutRecordRetry(t) ==
    /\ TotalRetries(Names) < MaxEvents
    /\ retries' = [retries EXCEPT ![NameOf(t)] = @ + 1]
    /\ files' = save_result(files, t, DiedResult)
    /\ latest' = link(latest, t)
    /\ UNCHANGED <<config, recording, runner, results, died, worker, run_vars, history>>

OutputNext ==
    \/ \E t \in Tests, st \in TestStatus : OutFinishedTest(t, st)
    \/ \E t \in Tests : OutRecordRetry(t)

SpecOutput == OutputInit /\ [][OutputNext]_vars

\* ---- recordings and their comparison ----

RecordedNames == 1..MaxRecorded

\* RecordedResult values; durations are counted in tenths of a second
RecordedResults ==
    {[status |-> st, duration |-> 0, crash_reschedules |-> 0] : st \in TestStatus}
    \cup {[status |-> "PASS", duration |-> d, crash_reschedules |-> 0] :
             d \in {49, 50}}
    \cup {[status |-> "PASS", duration |-> 0, crash_reschedules |-> 1]}

\* dict[str, RecordedResult]: a recording of some of the names
Recordings == UNION {[S -> RecordedResults] : S \in SUBSET RecordedNames}

\* sorted(set(a.keys()) | set(b.keys()))
RECURSIVE sorted(_)
sorted(S) ==
    IF S = {} THEN <<>>
    ELSE LET m == CHOOSE x \in S : \A y \in S : x <= y
         IN  <<m>> \o sorted(S \ {m})

\* status.name.lower()
lower(st) ==
    CASE st = "PASS" -> "pass" [] st = "FAIL" -> "fail"
      [] st = "SKIP" -> "skip" [] st = "ERROR" -> "error"

\* (mutant) only FAIL counts as a failure
IsFailure_FailOnly(st) == st = "FAIL"

\* `status in (TestStatus.FAIL, TestStatus.ERROR)`
IsFailure(st) == st \in {"FAIL", "ERROR"}

\* (mutant) every test of both recordings is taken as changed
StatusChanged_Always(ra, rb) == TRUE

\* `ra.status != rb.status`
StatusChanged(ra, rb) == ra.status # rb.status

\* int() of a float given in tenths: whole seconds, truncated towards zero
int(x) == IF x >= 0 THEN x \div 10 ELSE -((-x) \div 10)

abs(x) == IF x >= 0 THEN x ELSE -x

\* the body of the loop of print_comparison for one name
CompareOne(rep, name, a, b) ==
    IF name \notin DOMAIN a
    THEN [rep EXCEPT
            !.new_tests = Append(@, name),
            !.crash_rescheduled =
                IF name \in DOMAIN b /\ b[name].crash_reschedules > 0
                THEN Append(@, <<name, 0, b[name].crash_reschedules>>) ELSE @]
    ELSE IF name \notin DOMAIN b
    THEN [rep EXCEPT !.removed_tests = Append(@, name)]
    ELSE LET ra == a[name]
             rb == b[name]
             delta == int(rb.duration - ra.duration)
         IN  [rep EXCEPT
                !.regressions =
                    IF StatusChanged(ra, rb) /\ IsFailure(rb.status)
                    THEN Append(@, <<name, lower(ra.status), lower(rb.status)>>)
                    ELSE @,
                !.fixes =
                    IF /\ StatusChanged(ra, rb)
                       /\ ~IsFailure(rb.status)
                       /\ IsFailure(ra.status)
                    THEN Append(@, <<name, lower(ra.status), lower(rb.status)>>)
                    ELSE @,
                !.timing = IF abs(delta) >= 5 THEN Append(@, <<name, delta>>) ELSE @,
                !.crash_rescheduled =
                    IF \/ ra.crash_reschedules # rb.crash_reschedules
                       \/ rb.crash_reschedules > 0
                    THEN Append(@, <<name, ra.crash_reschedules,
                                     rb.crash_reschedules>>)
                    ELSE @]

\* `for name in all_tests`
RECURSIVE CompareLoop(_, _, _, _)
CompareLoop(rep, names, a, b) ==
    IF names = <<>> THEN rep
    ELSE CompareLoop(CompareOne(rep, Head(names), a, b), Tail(names), a, b)

\* timing.sort(key=lambda t: t[1], reverse=True): stable, largest delta first
RECURSIVE SortTiming(_)
SortTiming(s) ==
    IF s = <<>> THEN <<>>
    ELSE LET done == SortTiming(Front(s))
             x == Last(s)
             k == Cardinality({i \in DOMAIN done : done[i][2] >= x[2]})
         IN  SubSeq(done, 1, k) \o <<x>> \o SubSeq(done, k + 1, Len(done))

\* the lists print_comparison prints for the recordings a and b
print_comparison(a, b) ==
    LET rep == CompareLoop(EmptyReport, sorted(DOMAIN a \cup DOMAIN b), a, b)
        crashed(nm) == \E i \in DOMAIN rep.crash_rescheduled :
                          rep.crash_rescheduled[i][1] = nm
        kept(nm) == ~crashed(nm)
    IN  [rep EXCEPT !.done = TRUE,
                    !.timing = SortTiming(@),
                    !.new_non_crashed = SelectSeq(rep.new_tests, kept)]

\* two recordings have been loaded, nothing else is going on
CompareInit ==
    /\ RunnerInit
    /\ tracing = NoTracing
    /\ selected = {}
    /\ probe_interval = 0
    /\ max_supervisor_restarts = 0
    /\ ~keep_alive
    /\ results_dir = "dir"
    /\ rec_a \in Recordings
    /\ rec_b \in Recordings
    /\ report = EmptyReport
    /\ slowest = NotSorted

\* `compare`: print_comparison(console, a, b, label_a, label_b)
PrintComparison ==
    /\ ~report.done
    /\ report' = print_comparison(rec_a, rec_b)
    /\ UNCHANGED <<config, runner, output, worker, run_vars, history, rec_a,
                   rec_b, slowest>>

SpecCompare == CompareInit /\ [][PrintComparison]_vars

\* ---- the runner with tracers, and with commands that fail ----

\* (mutant) the tracer is started without its scope being entered
Started_NoScope(cm, n) == [cm EXCEPT !.procs = @ \cup {n}]

\* MkosiSupervisor.trace up to its yield: start_command has returned the
\* process of tracer n
Started(cm, n) == [cm EXCEPT !.scopes = Append(@, n), !.procs = @ \cup {n}]

\* `await self.start_command(...)` of a trace scope returns: the tracer runs,
\* and the worker goes on to the next scope or to run_test
StartTrace(w) ==
    /\ run_state = "running"
    /\ pc[w] \in {"start_dmesg", "start_bpftrace"}
    /\ pc' = [pc EXCEPT ![w] = AfterStart(pc[w])]
    /\ commands' = [commands EXCEPT
                      ![w] = WithTest(Started(@, TracerOf(pc[w])),
                                      AfterStart(pc[w]))]
    /\ sinks' = Opened(sinks, test[w], AfterStart(pc[w]))
    /\ UNCHANGED <<config, recording, runner, output, exited, test,
                   current_test, result, probe_task, attempt, consec, run_vars,
                   history>>

\* a tracer that was started ends by itself: the command has failed in the
\* VM.  Its scope stays open, and proc.terminate() at the end of the scope
\* raises a ProcessLookupError that is swallowed.
TracerExits(w, n) ==
    /\ run_state = "running"
    /\ n \in commands[w].procs \ {"test"}
    /\ commands' = [commands EXCEPT ![w].procs = @ \ {n}]
    /\ UNCHANGED sinks
    /\ UNCHANGED <<config, recording, runner, output, exited, pc, test,
                   current_test, result, probe_task, attempt, consec, run_vars,
                   history>>

\* start_command of a trace scope raises OSError: the process could not be
\* created
StartTraceOSError(w) ==
    pc[w] \in {"start_dmesg", "start_bpftrace"} /\ RaisedInLoop(w, "OSError")

\* collect_artifacts raises: OSError when its process cannot be created or
\* an artifact cannot be written, and tarfile.ReadError ("Exception") when
\* the archive it has received is cut short
CollectArtifactsRaises(w, exc) ==
    pc[w] = "collect_artifacts" /\ RaisedInLoop(w, exc)

\* run_command returns None after its timeout and proc.terminate(), and
\* run_test makes an ERROR of it
TimedOutResult == [from_error("timed out", 0) EXCEPT !.duration = 1]

\* the per-test timeout expires
RunTestTimesOut(w) == RunTest(w, TimedOutResult)

\* every Test is handed to a runner with one restart allowed
ScopesInit ==
    /\ RunnerInit
    /\ tracing \in [dmesg : BOOLEAN, bpftrace : BOOLEAN]
    /\ selected = Tests
    /\ max_supervisor_restarts = 1
    /\ rec_a = <<>>
    /\ rec_b = <<>>
    /\ report = EmptyReport
    /\ slowest = NotSorted

ScopesNext ==
    \/ Next
    \/ \E w \in Supervisors : StartTrace(w)
    \/ \E w \in Supervisors, n \in {"dmesg", "bpftrace"} : TracerExits(w, n)
    \/ \E w \in Supervisors : StartTraceOSError(w)
    \/ \E w \in Supervisors, exc \in {"OSError", "Exception"} :
            CollectArtifactsRaises(w, exc)
    \/ \E w \in Supervisors : RunTestTimesOut(w)

SpecScopes == ScopesInit /\ [][ScopesNext]_vars

\* ---- collect_tests, then the run of what it returned, on supervisors
\* ---- that never die

\* a selection of names and an iterate value, collect_tests not yet called
IterateInit ==
    /\ probe_interval \in {0, 1}
    /\ max_supervisor_restarts = MaxRestarts
    /\ keep_alive \in BOOLEAN
    /\ results_dir = "none"
    /\ selected = {}
    /\ tracing = NoTracing
    /\ collect \in {[tests |-> 1..n, iterate |-> k, randomize |-> r,
                     state |-> "pending", out |-> <<>>] :
                        n \in 0..MaxNames, k \in 0..MaxIterate, r \in BOOLEAN}
    /\ tests = <<>>
    /\ id = [t \in Tests |-> 0]
    /\ death_counts = [nm \in Names |-> 0]
    /\ enter_count = [w \in Supervisors |-> 1]
    /\ results = [t \in Tests |-> <<>>]
    /\ retries = [nm \in Names |-> 0]
    /\ died = 0
    /\ files = <<>>
    /\ latest = [nm \in Names |-> NoLink]
    /\ exited = [w \in Supervisors |-> FALSE]
    /\ pc = [w \in Supervisors |-> "spawning"]
    /\ test = [w \in Supervisors |-> None]
    /\ current_test = [w \in Supervisors |-> None]
    /\ result = [w \in Supervisors |-> NoResult]
    /\ probe_task = [w \in Supervisors |-> "none"]
    /\ commands = [w \in Supervisors |-> NoCommands]
    /\ sinks = [nm \in Names |-> NoSinks]
    /\ attempt = [w \in Supervisors |-> 0]
    /\ run_state = "running"
    /\ summaries = 0
    /\ consec = [w \in Supervisors |-> 0]
    /\ probe_recovered = FALSE
    /\ unexpected = FALSE
    /\ rec_a = <<>>
    /\ rec_b = <<>>
    /\ report = EmptyReport
    /\ slowest = NotSorted

\* Test.name of the Test objects collect_tests built: the Test at index i of
\* the list has the i-th name, and InitialQueue numbers the Tests from the
\* end of the list
NameIn(t) == collect.out[Len(collect.out) + 1 - t]

\* `tests = list(collect_tests(config))` of run(): the assertion on iterate
\* fails before any Test is built; an empty list is refused by run(); a list
\* of more Tests than the model has is built and not run
CollectTests ==
    /\ collect.state = "pending"
    /\ IF ~IterateValid(collect.iterate)
       THEN /\ collect' = [collect EXCEPT !.state = "rejected"]
            /\ UNCHANGED <<selected, tests>>
       ELSE \E out \in collect_tests(collect.tests, collect.iterate,
                                     collect.randomize) :
              IF out # <<>> /\ Len(out) <= NumTests
              THEN /\ collect' = [collect EXCEPT !.state = "collected",
                                                 !.out = out]
                   /\ selected' = 1..Len(out)
                   /\ tests' = InitialQueue(Len(out))
              ELSE /\ collect' = [collect EXCEPT
                                    !.state = IF out = <<>> THEN "no_tests"
                                              ELSE "not_run",
                                    !.out = out]
                   /\ UNCHANGED <<selected, tests>>
    /\ UNCHANGED <<probe_interval, max_supervisor_restarts, keep_alive,
                   results_dir, tracing, id, death_counts, enter_count, output, worker, run_vars,
                   history, recording>>

\* the TestRunner is constructed and run once collect_tests has returned Tests
Handed == collect.state = "collected"

IterateNext ==
    \/ CollectTests
    \/ Handed /\ CalmNext

SpecIterate ==
    /\ IterateInit /\ [][IterateNext]_vars
    /\ WF_vars(CollectTests)
    /\ \A w \in Supervisors : WF_vars(Handed /\ CalmStep(w))
    /\ WF_vars(Handed /\ RunFinish)

\* ---- --slowest-first: sort_by_duration, then the run of what it
\* ---- returned on supervisors that never die

\* (mutant) a name without a recorded duration counts as the fastest
DurationKey_Zero(nm, durations) ==
    IF nm \in DOMAIN durations THEN durations[nm].duration ELSE 0

\* the sort key: `durations[t.name].duration if t.name in durations else
\* float("inf")`, which is above every recorded duration
DurationKey(nm, durations) ==
    IF nm \in DOMAIN durations THEN durations[nm].duration
    ELSE MaxDuration + 1

\* sorted(tests, key=...): ascending by key, and stable, so names with the
\* same key keep the order they had in the list
RECURSIVE SortedByDuration(_, _)
SortedByDuration(s, durations) ==
    IF s = <<>> THEN <<>>
    ELSE LET done == SortedByDuration(Front(s), durations)
             x == Last(s)
             k == Cardinality({i \in DOMAIN done :
                     DurationKey(done[i], durations)
                        <= DurationKey(x, durations)})
         IN  SubSeq(done, 1, k) \o <<x>> \o SubSeq(done, k + 1, Len(done))

\* resolve_recording: an index is looked up among the recordings there are
\* and raises when there is none; a label or "latest" is made into a path
\* whether the directory exists or not
resolve_recording(source, exists) ==
    IF source = "index" /\ ~exists THEN "IndexError" ELSE "path"

\* sort_by_duration(tests, source, results_dir), where `exists` tells
\* whether the directory of the source exists and durations is what
\* load_recording reads from it
sort_by_duration(list, source, exists, durations) ==
    IF resolve_recording(source, exists) # "path"
    THEN [state |-> resolve_recording(source, exists), out |-> list]
    ELSE IF ~exists
         THEN IF source \in {"", "latest"}
              THEN [state |-> "unchanged", out |-> list]
              ELSE [state |-> "ValueError", out |-> list]
         ELSE [state |-> "sorted", out |-> SortedByDuration(list, durations)]

\* collect_tests has returned a list of names, in any order, and
\* --slowest-first is given; a results directory is there, as run() demands
SlowestInit ==
    /\ probe_interval \in {0, 1}
    /\ max_supervisor_restarts = MaxRestarts
    /\ keep_alive = FALSE
    /\ results_dir = "dir"
    /\ selected = {}
    /\ tracing = NoTracing
    /\ collect \in {[tests |-> {l[i] : i \in DOMAIN l}, iterate |-> 1,
                     randomize |-> FALSE, state |-> "collected", out |-> l] :
                        l \in UNION {[1..n -> Names] : n \in 1..NumTests}}
    /\ slowest = [source |-> "none", exists |-> FALSE, state |-> "pending"]
    /\ rec_a \in UNION {[S -> {[status |-> "PASS", duration |-> d,
                                 crash_reschedules |-> 0] :
                                    d \in 1..MaxDuration}] :
                            S \in SUBSET Names}
    /\ rec_b = <<>>
    /\ report = EmptyReport
    /\ tests = <<>>
    /\ id = [t \in Tests |-> 0]
    /\ death_counts = [nm \in Names |-> 0]
    /\ enter_count = [w \in Supervisors |-> 1]
    /\ results = [t \in Tests |-> <<>>]
    /\ retries = [nm \in Names |-> 0]
    /\ died = 0
    /\ files = <<>>
    /\ latest = [nm \in Names |-> NoLink]
    /\ exited = [w \in Supervisors |-> FALSE]
    /\ pc = [w \in Supervisors |-> "spawning"]
    /\ test = [w \in Supervisors |-> None]
    /\ current_test = [w \in Supervisors |-> None]
    /\ result = [w \in Supervisors |-> NoResult]
    /\ probe_task = [w \in Supervisors |-> "none"]
    /\ commands = [w \in Supervisors |-> NoCommands]
    /\ sinks = [nm \in Names |-> NoSinks]
    /\ attempt = [w \in Supervisors |-> 0]
    /\ run_state = "running"
    /\ summaries = 0
    /\ consec = [w \in Supervisors |-> 0]
    /\ probe_recovered = FALSE
    /\ unexpected = FALSE

\* `tests = sort_by_duration(tests, ...)` of run(); the TestRunner is
\* built from what it returns, and not at all when it raises
SortByDuration ==
    /\ slowest.state = "pending"
    /\ \E source \in {"", "latest", "label", "index"}, exists \in BOOLEAN :
          LET r == sort_by_duration(collect.out, source, exists, rec_a)
          IN  /\ slowest' = [source |-> source, exists |-> exists,
                             state |-> r.state]
              /\ IF r.state \in {"sorted", "unchanged"}
                 THEN /\ collect' = [collect EXCEPT !.out = r.out]
                      /\ selected' = 1..Len(r.out)
                      /\ tests' = InitialQueue(Len(r.out))
                 ELSE UNCHANGED <<collect, selected, tests>>
    /\ UNCHANGED <<probe_interval, max_supervisor_restarts, keep_alive,
                   results_dir, tracing, id, death_counts, enter_count, output,
                   worker, run_vars, history, rec_a, rec_b, report>>

\* the runner runs once sort_by_duration has returned a list
SlowestNext ==
    \/ SortByDuration
    \/ slowest.state \in {"sorted", "unchanged"} /\ CalmNext

SpecSlowest == SlowestInit /\ [][SlowestNext]_vars

\* ---- collect_tests, then the run of what it returned on supervisors
\* ---- that spawn, die, respawn and raise as in Spec
DispatchNext ==
    \/ CollectTests
    \/ Handed /\ Next

SpecDispatch == IterateInit /\ [][DispatchNext]_vars

\* ---- the path without probing: run_test raises OSError on one
\* ---- supervisor, and every other call succeeds

\* the runner of Init with probing disabled
CrashInit == Init /\ probe_interval = 0

\* run_test raises OSError once in the run
CrashNext ==
    \/ \E w \in Supervisors : Acquire(w, "ok")
    \/ \E w \in Supervisors, r \in RunResults : RunTest(w, r)
    \/ \E w \in Supervisors : CollectArtifacts(w)
    \/ \E w \in Supervisors : died = 0 /\ RunTestOSError(w)
    \/ RunFinish

\* a call that succeeds returns in the end; nothing forces run_test to raise
SpecCrash ==
    /\ CrashInit /\ [][CrashNext]_vars
    /\ \A w \in Supervisors : WF_vars(CalmStep(w))
    /\ WF_vars(RunFinish)

\* ---- what the claims talk about ----

\* the Test is in the pending list
Queued(t) == \E i \in 1..Len(tests) : tests[i] = t

\* the Test has been popped by a worker that has not yet finalized it
InFlight(t) == \E w \in Supervisors : test[w] = t

\* the number of finished_test events of the Test
Finished(t) == Len(results[t])

\* every selected Test has exactly one finished_test event, no other has any
ExactlyOnce == \A t \in Tests : Finished(t) = IF t \in selected THEN 1 ELSE 0

\* (C1) Exhaustion: with supervisors that never die and keep_alive off,
\* run() returns, and by then every selected Test has exactly one
\* finished_test event and nothing else has one (none at all for N = 0).
C1_Exhaustion ==
    <>(keep_alive \/ (run_state = "returned" /\ ExactlyOnce))

C1_Witness ==
    /\ run_state = "returned"
    /\ selected = Tests
    /\ ExactlyOnce
    /\ \A w \in Supervisors : pc[w] = "ended"

\* (C2) No Test is finalized twice, and a finalized Test is neither in the
\* pending list nor in flight again.
C2_NoDoubleFinish ==
    \A t \in Tests :
        /\ Finished(t) <= 1
        /\ Finished(t) = 1 => ~Queued(t) /\ ~InFlight(t)

\* a Test that was re-queued after a death has got its real result, and
\* that death was not the only one of the run
C2_Witness ==
    \E t \in Tests :
        /\ id[t] > 0
        /\ Finished(t) = 1
        /\ results[t][1].status = "PASS"
        /\ died >= 2

DiesWith(w, t) ==
    died' = died + 1 /\ pc'[w] \notin {pc[w], "cancelled"} /\ current_test[w] = t

\* (C4, as claimed) a Test that was retried has been finalized when run()
\* returns: being re-queued, it is finalized in the end.
C4_RetriedIsFinalized ==
    run_state = "returned" => \A t \in Tests : id[t] > 0 => Finished(t) >= 1

\* (C4, amended) A death with Test t in flight and its counter still below
\* the cap calls retry() (new attempt id), records one retry and puts t at
\* the end of the pending list; a retried Test is finalized in the end
\* unless every worker ends first (failed respawn, cancellation, exception).
C4_RetryThenFinalized ==
    /\ [][\A w \in Supervisors, t \in Tests :
            (DiesWith(w, t) /\ death_counts[NameOf(t)] + 1 < max_supervisor_restarts)
            => /\ id'[t] = id[t] + 1
               /\ retries'[NameOf(t)] = retries[NameOf(t)] + 1
               /\ tests' = Append(tests, t)
               /\ Finished(t)' = 0]_vars
    /\ \A t \in Tests :
            (id[t] > 0) ~> (Finished(t) >= 1 \/ \A w \in Supervisors : Ended(w))

\* a retried Test has got a real result from a supervisor that is serving
C4_Witness ==
    \E t \in Tests, w \in Supervisors :
        /\ id[t] = 1
        /\ death_counts[NameOf(t)] = 1
        /\ max_supervisor_restarts = 2
        /\ results[t] = <<PassResult>>
        /\ ~Ended(w)

\* (C5, as claimed) With max_supervisor_restarts = 0 no worker re-enters
\* its supervisor after a death.
C5_NoRespawnWhenDisabled ==
    max_supervisor_restarts = 0 => \A w \in Supervisors : pc[w] # "respawning"

AllSpawnFailed == \A w \in Supervisors : pc[w] = "spawn_failed"

NoDeath ==
    died = 0 /\ \A w \in Supervisors : pc[w] # "respawn_failed"

\* (C7) A worker whose spawn failed stays ended and never holds a Test;
\* when some but not all spawns failed and nothing else went wrong, run()
\* returns with every selected Test finalized once, with its real result.
C7_PartialSpawnFailure ==
    /\ [](\A w \in Supervisors :
            pc[w] = "spawn_failed" =>
                test[w] = None /\ current_test[w] = None)
    /\ [][\A w \in Supervisors :
            pc[w] = "spawn_failed" => pc'[w] = "spawn_failed" /\ test'[w] = None]_vars
    /\ []((/\ run_state = "returned"
           /\ \E w \in Supervisors : pc[w] = "spawn_failed"
           /\ \E w \in Supervisors : pc[w] = "ended"
           /\ NoDeath)
          => /\ ExactlyOnce
             /\ \A t \in selected : results[t][1] \in RunResults)

C7_Witness ==
    /\ run_state = "returned"
    /\ \E w \in Supervisors : pc[w] = "spawn_failed"
    /\ \E w \in Supervisors : pc[w] = "ended"
    /\ NoDeath
    /\ selected = Tests
    /\ ExactlyOnce

\* (C8) The probe task raises SupervisorExited exactly when three probe()
\* calls in a row have returned false: never with fewer, and a probe task
\* that has seen three does not go on probing.
C8_DeadAfterThree ==
    \A w \in Supervisors :
        /\ consec[w] <= 3
        /\ probe_task[w] = "raised" <=> consec[w] = 3

C8_Witness ==
    \E w \in Supervisors :
        /\ probe_task[w] = "raised"
        /\ consec[w] = 3
        /\ current_test[w] # None

\* (C9) With probes that fail only once in a row, no supervisor is
\* declared dead, no retry is recorded, and run() returns with every
\* selected Test finalized once with its real result.
C9_TransientFailure ==
    /\ died = 0
    /\ \A w \in Supervisors : probe_task[w] # "raised"
    /\ \A t \in Tests :
            retries[NameOf(t)] = 0 /\ death_counts[NameOf(t)] = 0 /\ id[t] = 0
    /\ run_state = "returned" =>
            /\ ExactlyOnce
            /\ \A t \in selected : results[t][1] \in RunResults

C9_Witness ==
    /\ probe_recovered
    /\ run_state = "returned"
    /\ selected = Tests
    /\ ExactlyOnce

\* (C10) With probe_interval = 0 no worker ever has a probe task, the only
\* caller of probe(), so probe() is never called; when nothing else went
\* wrong run() returns with every selected Test finalized once.
C10_NoProbeWhenDisabled ==
    probe_interval = 0 =>
        /\ \A w \in Supervisors :
                probe_task[w] = "none" /\ attempt[w] = 0 /\ consec[w] = 0
        /\ (/\ run_state = "returned"
            /\ \E w \in Supervisors : pc[w] = "ended"
            /\ NoDeath) => ExactlyOnce

C10_Witness ==
    /\ probe_interval = 0
    /\ run_state = "returned"
    /\ \A w \in Supervisors : pc[w] = "ended"
    /\ selected = Tests
    /\ ExactlyOnce

C12_FinishedOrPending ==
    run_state = "returned" =>
        \A t \in selected : Finished(t) >= 1 \/ Queued(t)

\* (C13) With keep_alive set run() never returns normally; a worker that
\* has ended with the queue drained has not released its supervisor as long
\* as run() has not been cancelled or aborted; and once parked, run() leaves
\* the park only by cancellation, which releases every supervisor and
\* prints the summary once.
C13_KeepAliveParks ==
    /\ [](keep_alive => run_state # "returned")
    /\ []((keep_alive /\ run_state \in {"running", "keeping_alive"}) =>
            \A w \in Supervisors : pc[w] = "ended" => ~exited[w])
    /\ [][run_state = "keeping_alive" =>
            /\ run_state' = "cancelled"
            /\ summaries = 0 /\ summaries' = 1
            /\ \A w \in Supervisors : exited'[w]]_vars

\* run() is parked after every Test was finalized, the supervisors still up
C13_Witness ==
    /\ run_state = "keeping_alive"
    /\ selected = Tests
    /\ ExactlyOnce
    /\ \A w \in Supervisors : pc[w] = "ended" /\ ~exited[w]

\* run() has ended: returned, raised or was cancelled
RunOver == run_state \in {"returned", "raised", "cancelled"}

\* the stdout/stderr sinks of running_test are open around run_test only
SinksOpen(w) == pc[w] = "run_test"

\* the dmesg and bpftrace scopes are open around the whole of _run_test
TracersOpen(w) == pc[w] \in {"run_test", "collect_artifacts"}

\* (C14) print_summary has been called exactly once when run() has ended,
\* whichever way it ended, and never before; when it is called no sink or
\* tracer scope is open, no probe task is left and every supervisor has
\* been released.
C14_SummaryOnce ==
    /\ RunOver <=> summaries = 1
    /\ ~RunOver <=> summaries = 0
    /\ summaries = 1 =>
        \A w \in Supervisors :
            /\ exited[w]
            /\ ~SinksOpen(w) /\ ~TracersOpen(w)
            /\ Ended(w)
            /\ probe_task[w] = "none" /\ test[w] = None

\* run() was cancelled while a worker had a Test in flight under probing
C14_Witness ==
    /\ run_state = "cancelled"
    /\ summaries = 1
    /\ Probing
    /\ \E w \in Supervisors : pc[w] = "cancelled"
    /\ \E t \in selected : Finished(t) = 0 /\ ~Queued(t)

\* (C15) Once run_test has raised an exception that is neither OSError nor
\* SupervisorExited, run() has raised: every worker has ended or been
\* cancelled and the summary is printed.  The step does not report a death,
\* record a retry, re-queue or finalize anything, unless the probe task of
\* a worker in run_test had raised SupervisorExited as well.
C15_ExceptionPropagates ==
    /\ [](unexpected =>
            /\ run_state = "raised"
            /\ \A w \in Supervisors : Ended(w)
            /\ summaries = 1)
    /\ [][(unexpected' /\ ~unexpected) =>
            \/ <<runner, output>>' = <<runner, output>>
            \/ \E w \in Supervisors :
                    pc[w] = "run_test" /\ probe_task[w] = "raised"]_vars

\* the exception came under probing while two Tests were in flight: the run
\* has raised and neither Test was finalized or put back
C15_Witness ==
    /\ unexpected
    /\ Probing
    /\ run_state = "raised"
    /\ died = 0
    /\ \E t, u \in selected :
            /\ t # u
            /\ Finished(t) = 0 /\ ~Queued(t)
            /\ Finished(u) = 0 /\ ~Queued(u)

\* (C16) The status counts of the summary add up to the number of
\* finished_test events emitted so far, and a record_retry event changes the
\* retry count only, never a status count.
C16_NoDoubleCount ==
    /\ [](SumCounts(SummaryCounts, StatusStyles) = FinishedEvents)
    /\ [][TotalRetries(Names)' # TotalRetries(Names) =>
            /\ TotalRetries(Names)' = TotalRetries(Names) + 1
            /\ SummaryCounts' = SummaryCounts]_vars

\* results of all four statuses and a retry have been reported
C16_Witness ==
    /\ \A st \in {"PASS", "FAIL", "SKIP"} : Counter(st) = 1
    /\ FinishedEvents = 3
    /\ TotalRetries(Names) >= 1

\* worker w starts serving in this step: its supervisor has spawned
StartsServing(w) == pc[w] = "spawning" /\ pc'[w] # "spawning"

\* at least as many Tests as supervisors
EnoughTests == Cardinality(selected) >= NumSupervisors

\* (C17) With at least as many tests as supervisors, and supervisors that
\* all spawn and run their tests, every supervisor takes a test when it
\* starts serving.
C17_Distribution ==
    [][\A w \in Supervisors :
         EnoughTests /\ StartsServing(w) => pc'[w] = "run_test"]_vars

\* (C17) With at least as many tests as supervisors, a supervisor that has
\* spawned before any test is finished takes a test when it starts serving,
\* and a supervisor that has taken a test delivers its result.
C17_DistributionEarlySpawn ==
    /\ [][\A w \in Supervisors :
            EnoughTests /\ FinishedEvents = 0 /\ StartsServing(w)
                => pc'[w] = "run_test"]_vars
    /\ \A w \in Supervisors, t \in Tests :
          (pc[w] = "run_test" /\ test[w] = t) ~> (Finished(t) = 1 /\ test[w] # t)

\* every supervisor has spawned before a test was finished, and each of them
\* is running a test of its own
C17_Witness ==
    /\ EnoughTests
    /\ FinishedEvents = 0
    /\ \A w \in Supervisors : pc[w] = "run_test"

\* the attempt directories of test name nm whose status, duration and
\* retcode files have the contents of result r
DirsMatching(nm, r) ==
    {d \in DOMAIN files : d[1] = nm /\ files[d] = result_files(r)}

\* run() has returned and there is a results directory
CompletedWithDir == run_state = "returned" /\ results_dir = "dir"

NamesIn(list) == {list[i][1] : i \in DOMAIN list}

\* (C19) Comparing a recording with itself reports no regression, no fix,
\* no new test, no removed test and no timing change.
C19_CompareWithItself ==
    (report.done /\ rec_a = rec_b) =>
        /\ report.regressions = <<>>
        /\ report.fixes = <<>>
        /\ report.new_tests = <<>>
        /\ report.new_non_crashed = <<>>
        /\ report.removed_tests = <<>>
        /\ report.timing = <<>>

\* a recording of every name, one of them failed and one with a duration,
\* has been compared with itself
C19_Witness ==
    /\ report.done
    /\ rec_a = rec_b
    /\ DOMAIN rec_a = RecordedNames
    /\ \E nm \in DOMAIN rec_a : IsFailure(rec_a[nm].status)
    /\ \E nm \in DOMAIN rec_a : rec_a[nm].duration > 0

\* the tests that are in both recordings
InBoth == DOMAIN rec_a \cap DOMAIN rec_b

\* b is a with the one test nm gone from PASS to FAIL
OnlyPassToFail(nm) ==
    /\ nm \in DOMAIN rec_a
    /\ rec_a[nm].status = "PASS"
    /\ rec_b = [rec_a EXCEPT ![nm].status = "FAIL"]

\* (C20) A test of both recordings is reported as a regression exactly when
\* its status has changed and is now FAIL or ERROR, and as a fix exactly when
\* its status has changed from FAIL or ERROR to neither; no test is both,
\* only tests of both recordings are either, and a single test going from
\* PASS to FAIL gives exactly one regression and no fix.
C20_RegressionsAndFixes ==
    report.done =>
        /\ \A nm \in InBoth :
              /\ nm \in NamesIn(report.regressions)
                    <=> /\ rec_a[nm].status # rec_b[nm].status
                        /\ rec_b[nm].status \in {"FAIL", "ERROR"}
              /\ nm \in NamesIn(report.fixes)
                    <=> /\ rec_a[nm].status \in {"FAIL", "ERROR"}
                        /\ rec_b[nm].status \notin {"FAIL", "ERROR"}
        /\ NamesIn(report.regressions) \cap NamesIn(report.fixes) = {}
        /\ NamesIn(report.regressions) \cup NamesIn(report.fixes) \subseteq InBoth
        /\ Len(report.regressions) = Cardinality(NamesIn(report.regressions))
        /\ Len(report.fixes) = Cardinality(NamesIn(report.fixes))
        /\ \A nm \in RecordedNames :
              OnlyPassToFail(nm) =>
                  /\ report.regressions = <<<<nm, "pass", "fail">>>>
                  /\ report.fixes = <<>>

\* two recordings of the same tests that differ in one test, PASS then FAIL,
\* have been compared
C20_Witness ==
    /\ report.done
    /\ DOMAIN rec_a = RecordedNames
    /\ \E nm \in RecordedNames : OnlyPassToFail(nm)
    /\ Len(report.regressions) = 1

\* the finished_test events of the Tests named nm
FinishedOfName(nm) == Cardinality({e \in AllEvents : NameIn(e[1]) = nm})

\* (C21) collect_tests with iterate = k >= 1 on n distinct names returns k*n
\* Tests, exactly k of each name; the run of them on supervisors that never
\* die ends with k*n finished_test events, exactly k for each name; with
\* iterate < 1 collect_tests fails and no Test is built, run or finalized.
C21_Iterate ==
    /\ [](collect.state \in {"collected", "not_run", "no_tests"} =>
            /\ collect.iterate >= 1
            /\ Len(collect.out) = collect.iterate * Cardinality(collect.tests)
            /\ \A i \in DOMAIN collect.out : collect.out[i] \in collect.tests
            /\ \A nm \in collect.tests :
                  Count(collect.out, nm) = collect.iterate)
    /\ [][(collect.state = "pending" /\ Handed') =>
            /\ Len(tests') = collect.iterate * Cardinality(collect.tests)
            /\ \A nm \in collect.tests :
                  Cardinality({i \in DOMAIN tests' : NameIn(tests[i])' = nm})
                      = collect.iterate]_vars
    /\ []((Handed /\ run_state = "returned") =>
            /\ FinishedEvents = collect.iterate * Cardinality(collect.tests)
            /\ \A nm \in collect.tests : FinishedOfName(nm) = collect.iterate)
    /\ [](collect.iterate < 1 =>
            /\ collect.state \in {"pending", "rejected"}
            /\ collect.out = <<>> /\ tests = <<>> /\ selected = {}
            /\ FinishedEvents = 0
            /\ \A w \in Supervisors : pc[w] = "spawning")
    /\ (collect.iterate < 1) ~> (collect.state = "rejected")
    /\ (Handed /\ ~keep_alive) ~> (run_state = "returned")

\* two iterations of one name have been collected, run and finalized
C21_Witness ==
    /\ Handed
    /\ collect.iterate = 2
    /\ Cardinality(collect.tests) = 1
    /\ run_state = "returned"
    /\ FinishedOfName(1) = 2

\* the step emits the event that closes the attempt of Test t: its
\* finished_test, or the record_retry that goes with its re-queueing
Closes(t) ==
    \/ Finished(t)' = Finished(t) + 1
    \/ /\ retries'[NameOf(t)] = retries[NameOf(t)] + 1
       /\ id'[t] = id[t] + 1

\* worker w pops a Test in this step
Pops(w) == test'[w] # None /\ test'[w] # test[w]

\* (C22) A worker pops its next Test only when the Test it popped before is
\* closed: in the step that pops, the worker either holds no Test or emits
\* the finished_test of the one it holds; and a worker that lets go of a
\* Test and goes on (to its next pop, or to a respawn) has emitted the
\* finished_test or the retry of that Test in the same step.
C22_EmittedBeforeNextPop ==
    [][\A w \in Supervisors :
        /\ Pops(w) =>
              \/ test[w] = None
              \/ \E t \in Tests :
                    test[w] = t /\ Finished(t)' = Finished(t) + 1
        /\ \A t \in Tests :
              (test[w] = t /\ test'[w] # t /\ ~Ended(w)') => Closes(t)]_vars

\* one worker has popped the second Test after finalizing the first, while
\* the other worker has not spawned yet
C22_Witness ==
    \E w, v \in Supervisors :
        /\ pc[w] = "run_test" /\ test[w] = 2
        /\ Finished(1) = 1
        /\ pc[v] = "spawning"

\* (C23) When the recovery handler of a probing worker runs with an empty
\* cell, it reports the death and nothing else: the pending list, the attempt
\* ids, the death counters, the retries, the finished_test events and the
\* result files stay as they are; the worker then respawns if Tests are
\* pending and ends if none is.
C23_DeathBetweenTests ==
    [][\A w \in Supervisors :
        (Probing /\ DiesWith(w, None)) =>
            /\ UNCHANGED <<tests, id, death_counts, results, retries, files,
                           latest>>
            /\ pc'[w] = IF tests # <<>> THEN "respawning" ELSE "ended"]_vars

\* two deaths, only one of them with a Test in the cell, and the worker that
\* died between tests is respawning for the Test the other death put back
C23_Witness ==
    /\ Probing
    /\ died = 2
    /\ TotalRetries(Names) = 1
    /\ \A w \in Supervisors : pc[w] = "respawning"

\* worker w is in Serving: its supervisor is entered and it holds a Test
Serving(w) == pc[w] \in {"run_test", "collect_artifacts"}

\* (C24) A respawn releases the supervisor and then enters it again: while
\* the worker waits for the second __aenter__ the supervisor is not marked
\* exited, the worker holds no Test, its cell is empty and it has no probe
\* task.  When __aenter__ returns the worker serves again with a new probe
\* task at its first attempt and a newly popped Test in the cell, or ends if
\* nothing is pending; when it raises the worker ends and never holds a Test
\* again.  __aenter__ is called once when the worker starts and once more in
\* each step that begins a respawn, and in no other step.
C24_Respawn ==
    /\ [](\A w \in Supervisors :
            /\ pc[w] = "respawning" =>
                  /\ ~exited[w]
                  /\ test[w] = None /\ current_test[w] = None
                  /\ probe_task[w] = "none"
            /\ pc[w] = "respawn_failed" => test[w] = None
            /\ enter_count[w] >= 1 /\ enter_count[w] <= 1 + died
            /\ (Serving(w) /\ run_state = "running") => ~exited[w])
    /\ [][\A w \in Supervisors :
            /\ (pc[w] = "respawning" /\ pc'[w] \notin {"respawning", "cancelled"}) =>
                  \/ /\ pc'[w] = "run_test"
                     /\ tests # <<>> /\ test'[w] = Last(tests)
                     /\ current_test'[w] = test'[w]
                     /\ probe_task'[w] = "running" /\ attempt'[w] = 0
                     /\ ~exited'[w]
                  \/ pc'[w] = "ended" /\ tests = <<>> /\ test'[w] = None
                  \/ pc'[w] = "respawn_failed" /\ test'[w] = None
            /\ pc[w] = "respawn_failed" => pc'[w] = "respawn_failed"
            /\ (pc'[w] = "respawning" /\ pc[w] # "respawning") <=>
                  enter_count'[w] # enter_count[w]
            /\ (pc'[w] = "respawning" /\ pc[w] # "respawning") =>
                  /\ enter_count'[w] = enter_count[w] + 1
                  /\ died' = died + 1]_vars

\* a supervisor has died once with a Test in flight, was entered a second
\* time and serves the Test again under a new probe task
C24_Witness ==
    \E w \in Supervisors :
        /\ died = 1
        /\ enter_count[w] = 2
        /\ pc[w] = "run_test"
        /\ probe_task[w] = "running"
        /\ id[test[w]] = 1

\* (C25) The probe task of a worker lives inside Serving only: a worker that
\* is spawning, respawning or over has no probe task, so probe() is not
\* called on its supervisor, and a probing worker that serves has one.  The
\* step in which the worker ends with the queue drained cancels the probe
\* task.  When the recovery handler runs for a Test, the run_test call of
\* that Test is over without a result: in that step the worker lets go of
\* the Test, and the only finished_test the Test can get there is the ERROR of
\* the restart cap.
C25_StructuredScope ==
    /\ [](\A w \in Supervisors :
            /\ ~Serving(w) /\ pc[w] # "task_done" => probe_task[w] = "none"
            /\ (Probing /\ Serving(w) /\ run_state = "running")
                  => probe_task[w] \in {"running", "raised"}
            /\ probe_task[w] = "none" => attempt[w] = 0 /\ consec[w] = 0)
    /\ [][\A w \in Supervisors :
            /\ (Serving(w) /\ pc'[w] = "ended") => probe_task'[w] = "none"
            /\ \A t \in Tests :
                 (Probing /\ DiesWith(w, t)) =>
                    /\ pc[w] \in {"run_test", "collect_artifacts"}
                    /\ test[w] = t
                    /\ ~Serving(w)' /\ test'[w] = None /\ result'[w] = NoResult
                    /\ \/ results'[t] = results[t]
                       \/ results'[t] = Append(results[t],
                              from_error("killed supervisor",
                                         death_counts'[NameOf(t)]))]_vars

\* under probing one worker has ended with the queue drained, its probe task
\* cancelled, and the other has lost its supervisor with a Test in flight
C25_Witness ==
    \E w, v \in Supervisors :
        /\ Probing
        /\ pc[w] = "ended" /\ probe_task[w] = "none"
        /\ pc[v] = "respawning"
        /\ Finished(1) = 1
        /\ died = 1
        /\ retries[NameOf(2)] = 1

\* the step emits a finished_test event for Test t
Finishes(t) == Len(results'[t]) = Len(results[t]) + 1

\* (C26, as claimed) Every finished_test event of a Test comes when the
\* collect_artifacts call that followed the return of its run_test returns.
C26_RunCollectFinish ==
    [][\A t \in Tests :
        Finishes(t) =>
            \E w \in Supervisors :
                /\ pc[w] = "collect_artifacts" /\ test[w] = t
                /\ result[w] \in RunResults
                /\ results'[t] = Append(results[t], result[w])]_vars

\* (C26, amended) A finished_test event that carries the result of run_test
\* comes after run_test has returned that result for the Test: with a
\* results directory when the collect_artifacts call that followed returns,
\* without one, where collect_artifacts is not called, as run_test returns.
\* collect_artifacts is called only for a Test whose run_test has returned
\* and which has no finished_test event yet.  The only other finished_test
\* event is the ERROR of the restart cap, emitted by the recovery handler for
\* an attempt whose run_test was cancelled.
C26_RunCollectFinishWithDir ==
    /\ [](\A w \in Supervisors :
            pc[w] = "collect_artifacts" =>
                /\ results_dir # "none"
                /\ result[w] \in RunResults
                /\ test[w] # None /\ Finished(test[w]) = 0)
    /\ [][\A w \in Supervisors :
            pc'[w] = "collect_artifacts" =>
                \/ pc[w] = "collect_artifacts"
                \/ pc[w] = "run_test" /\ test'[w] = test[w]]_vars
    /\ [][\A t \in Tests :
        Finishes(t) =>
            \E w \in Supervisors :
                /\ test[w] = t
                /\ \/ /\ results_dir # "none"
                      /\ pc[w] = "collect_artifacts"
                      /\ results'[t] = Append(results[t], result[w])
                   \/ /\ results_dir = "none"
                      /\ pc[w] = "run_test"
                      /\ \E r \in RunResults : results'[t] = Append(results[t], r)
                   \/ /\ DiesWith(w, t)
                      /\ CapHit(death_counts'[NameOf(t)])
                      /\ results'[t] = Append(results[t],
                             from_error("killed supervisor",
                                        death_counts'[NameOf(t)]))]_vars

\* with a results directory one Test has been finalized with the result of
\* its run_test after its artifacts were collected, and another by the
\* recovery handler at the cap
C26_Witness ==
    \E t, u \in Tests :
        /\ results_dir = "dir"
        /\ results[t] = <<PassResult>>
        /\ Finished(u) = 1 /\ results[u][1].status = "ERROR"

\* ---- the tracers of a Test ----

\* a worker is inside the scopes of its Test
InTest(w) ==
    pc[w] \in {"start_dmesg", "start_bpftrace", "run_test", "collect_artifacts"}

\* the tracers that run during a Test, in the order _run_tests_loop enters
\* their scopes
WantedScopes ==
    (IF DmesgWanted THEN <<"dmesg">> ELSE <<>>)
        \o (IF BpftraceWanted THEN <<"bpftrace">> ELSE <<>>)

\* the scopes a worker has entered when it is suspended at `at`
ScopesAt(at) ==
    IF at = "start_dmesg" THEN <<>>
    ELSE IF at = "start_bpftrace" THEN SelectSeq(WantedScopes, LAMBDA n : n = "dmesg")
    ELSE WantedScopes

\* (C27) The tracers are scoped to one Test: while run_test or
\* collect_artifacts is pending every wanted tracer has been started, dmesg
\* before bpftrace; a tracer runs only inside its scope, so none is left
\* when the worker is between Tests, recovering, or gone, whichever way the
\* Test was left; and the scopes are left bpftrace first, dmesg second.
C27_TracerScoped ==
    \A w \in Supervisors :
        /\ InTest(w) => commands[w].scopes = ScopesAt(pc[w])
        /\ ~InTest(w) => commands[w].scopes = <<>>
        /\ commands[w].procs \ {"test"}
                \subseteq {commands[w].scopes[i] : i \in DOMAIN commands[w].scopes}
        /\ commands[w].closed # <<"dmesg", "bpftrace">>

\* both tracers of a Test were terminated, bpftrace first, when its
\* supervisor died, and the worker is recovering
C27_Witness ==
    \E w \in Supervisors :
        /\ pc[w] = "respawning"
        /\ commands[w].closed = <<"bpftrace", "dmesg">>
        /\ commands[w].procs = {}
        /\ died > 0

\* ---- failures of collect_artifacts and of the tracers ----

\* worker w leaves the call it is suspended in by itself: its supervisor has
\* not been declared dead and the run is not being cancelled around it
LeavesCall(w) ==
    /\ pc'[w] # pc[w]
    /\ probe_task[w] # "raised"
    /\ pc'[w] # "cancelled"

\* (C28, as claimed) However collect_artifacts ends after run_test returned
\* result R for Test T, finished_test(T, R) is emitted with R, nothing is
\* reported dead and the run goes on.
C28_ArtifactFailureNonFatal ==
    [][\A w \in Supervisors, t \in Tests :
        (pc[w] = "collect_artifacts" /\ test[w] = t /\ LeavesCall(w)) =>
            /\ results'[t] = Append(results[t], result[w])
            /\ died' = died
            /\ run_state' = run_state]_vars

\* (C29, as claimed) However the start of the dmesg or bpftrace tracer of
\* Test T ends, the worker goes on to run T: no death is reported, no retry
\* is recorded, no death counter changes, and the run goes on.
C29_TraceStartupNonFatal ==
    [][\A w \in Supervisors, t \in Tests :
        (pc[w] \in {"start_dmesg", "start_bpftrace"} /\ test[w] = t
            /\ LeavesCall(w)) =>
            /\ test'[w] = t
            /\ pc'[w] \in {"start_bpftrace", "run_test"}
            /\ died' = died
            /\ retries' = retries
            /\ death_counts' = death_counts
            /\ run_state' = run_state]_vars

\* ---- the command of a cancelled run_test ----

\* (C30, as claimed) The command of run_test runs in the VM only while
\* run_test is pending: once the call has returned, timed out or been
\* cancelled the command has been terminated.
C30_CancelledCommandTerminated ==
    \A w \in Supervisors : "test" \in commands[w].procs => pc[w] = "run_test"

\* ---- the order of dispatch ----

\* (C31) A pop removes the last element of the pending list and nothing
\* else; a worker in the Serving loop always holds a Test, and one that has
\* handed over the result of run_test with the list empty leaves the loop
\* instead of waiting; and without randomization the Tests are dispatched for the
\* first time in ascending order of name: the name of the Test popped is not
\* above the name of any Test still waiting for its first dispatch (a Test
\* whose attempt id is still the first: Test.retry() has never run).
C31_DispatchOrder ==
    /\ [][\A w \in Supervisors :
            Pops(w) => /\ tests # <<>>
                       /\ test'[w] = Last(tests)
                       /\ tests' = Front(tests)]_vars
    /\ [](\A w \in Supervisors : InTest(w) => test[w] # None)
    /\ [][\A w \in Supervisors, t \in Tests :
            (Serving(w) /\ test[w] = t /\ Finishes(t) /\ died' = died
                /\ tests = <<>>) =>
                /\ test'[w] = None
                /\ pc'[w] \in {"ended", "task_done"}]_vars
    /\ [][\A w \in Supervisors :
            (~collect.randomize /\ Pops(w) /\ id[test'[w]] = 0) =>
                \A i \in DOMAIN tests' :
                    id[tests'[i]] = 0 =>
                        NameIn(test'[w]) <= NameIn(tests'[i])]_vars

\* two names were collected without randomization; the Test of the lower
\* name was dispatched first, died with its supervisor and is queued again,
\* and the Test of the higher name is now in flight
C31_Witness ==
    /\ ~collect.randomize
    /\ collect.out = <<2, 1>>
    /\ \E w \in Supervisors : test[w] # None /\ NameIn(test[w]) = 2
    /\ \E t \in Tests : NameIn(t) = 1 /\ id[t] = 1 /\ Queued(t)

\* ---- slowest first ----

\* name a may stand before name b in a list sorted by recorded duration:
\* a recorded name stands before every name without a recording, and
\* before the recorded names that did not take less time
Before(a, b) ==
    b \in DOMAIN rec_a =>
        (a \in DOMAIN rec_a /\ rec_a[a].duration <= rec_a[b].duration)

\* list `out` holds the names of list `in`, each as often, in ascending
\* order of recorded duration with the names without a recording last
SortedFrom(in, out) ==
    /\ Len(out) = Len(in)
    /\ \A nm \in Names : Count(out, nm) = Count(in, nm)
    /\ \A i, j \in DOMAIN out : i < j => Before(out[i], out[j])

\* sort_by_duration returns or raises in this step
SortReturns == slowest.state = "pending" /\ slowest'.state # "pending"

\* after a sort, a pop takes a Test that no waiting Test must come before:
\* Tests without a recording first, then from the slowest to the fastest
SlowestPopped ==
    \A w \in Supervisors :
        (slowest.state = "sorted" /\ Pops(w)) =>
            \A i \in DOMAIN tests' :
                Before(NameIn(tests'[i]), NameIn(test'[w]))

C33_LatestOneAttempt ==
    \A nm \in Names :
        LET targets ==
                {latest[nm], sinks[nm].stdout, sinks[nm].dmesg} \ {NoLink}
            dirs ==
                ({p[2] : p \in {q \in DOMAIN files : q[1] = nm}}
                    \cup targets \cup {sinks[nm].bpftrace}) \ {NoLink}
        IN  \A a \in targets : \A d \in dirs : d <= a

\* ---- C34: OSError without probing ----

\* C34: with probing disabled an OSError out of run_test ends that worker
\* only: the death is reported, the supervisor is released unless
\* keep_alive, the run goes on, the pending list and the other workers are
\* left as they are; the Tests pending then are finalized, by workers that
\* have not ended, and run() returns.  The step taken for the OSError is
\* the one that leaves run_test without a result.
C34_OSErrorEndsOnlyWorker ==
    /\ [][\A w \in Supervisors :
            (/\ ~Probing
             /\ pc[w] = "run_test"
             /\ pc'[w] \notin {"run_test", "collect_artifacts"}
             /\ \A t \in Tests : test[w] = t => ~Finishes(t)) =>
                /\ died' = died + 1
                /\ pc'[w] = "ended"
                /\ exited'[w] = ~keep_alive
                /\ run_state' = "running"
                /\ tests' = tests
                /\ results' = results
                /\ \A v \in Supervisors \ {w} :
                        /\ pc'[v] = pc[v]
                        /\ test'[v] = test[v]
                        /\ exited'[v] = exited[v]]_vars
    /\ \A t \in Tests : (died = 1 /\ Queued(t)) ~> (Finished(t) = 1)
    /\ [][\A t \in Tests :
            (died = 1 /\ Finishes(t)) =>
                \E v \in Supervisors : test[v] = t /\ ~Ended(v)]_vars
    /\ (died = 1) ~> (run_state \in {"returned", "keeping_alive"})

\* a worker has ended on the OSError and its supervisor is released, a
\* Test is pending and another worker is about to serve
C34_Witness ==
    /\ ~Probing
    /\ died = 1
    /\ run_state = "running"
    /\ tests # <<>>
    /\ \E w \in Supervisors :
            /\ pc[w] = "ended"
            /\ exited[w]
            /\ \E v \in Supervisors \ {w} : pc[v] = "spawning"

\* ---- C35: conservation of Tests ----

\* C35: as long as run() is not aborted by an exception or a cancellation
\* each selected Test is in exactly one place: a position of the pending
\* list, in flight on one worker, or finalized (the finished_test events
\* taken as one place)
C35_Conservation ==
    run_state \in {"running", "keeping_alive", "returned"} =>
        \A t \in selected :
            Cardinality({i \in DOMAIN tests : tests[i] = t})
                + Cardinality({w \in Supervisors : test[w] = t})
                + (IF Finished(t) > 0 THEN 1 ELSE 0) = 1

\* ---- C36: one worker per supervisor, one call at a time ----

\* C36: the supervisor of a worker serves one Test at a time, and no
\* run_test, trace or collect_artifacts call is in progress on it while it
\* is released or being re-acquired: a call in progress means the
\* supervisor is acquired, its worker is not respawning and holds the one
\* Test the call is for.  A call is in progress when the worker is
\* suspended in one or a trace scope of its Test is open.
C36_NoCallWhileReleased ==
    \A w \in Supervisors :
        /\ (InTest(w) \/ commands[w].scopes # <<>>) =>
                /\ ~exited[w]
                /\ pc[w] \notin {"spawning", "respawning"}
                /\ ~Ended(w)
                /\ test[w] # None
        /\ (exited[w] \/ pc[w] = "respawning") =>
                /\ test[w] = None
                /\ commands[w].scopes = <<>>

\* a supervisor is being re-acquired after the scopes of its last Test
\* were left
C36_Witness ==
    \E w \in Supervisors :
        /\ pc[w] = "respawning"
        /\ ~exited[w]
        /\ commands[w].closed # <<>>
        /\ died > 0

\* ---- C37: the death counter ----

C39_AllReleased ==
    \A w \in Supervisors :
        /\ RunOver => exited[w] /\ commands[w].procs = {}
        /\ (~keep_alive /\ pc[w] \in {"ended", "respawn_failed"}) =>
                exited[w] /\ commands[w].procs = {}

\* keep_alive, then a cancellation: the supervisor of a worker whose
\* respawn failed without a cleanup is released by run()
C39_Witness ==
    /\ keep_alive
    /\ run_state = "cancelled"
    /\ \E w \in Supervisors :
            /\ pc[w] = "respawn_failed"
            /\ enter_count[w] = 2
            /\ exited[w]

\* ---- C40: the respawn decision ----

====
